---- MODULE Spec2Model ----
(***************************************************************************)
(* State-machine model of the diabetic-retinopathy web application:        *)
(* WebApllication/src/App.tsx (the App component's state, onDrop,          *)
(* processImage, analyzeImage, resetAnalysis, deleteFromHistory,           *)
(* selectFromHistory), constants.ts, types.ts and the two components       *)
(* HistoryPanel and ImageFiltersComponent.                                 *)
(*                                                                         *)
(* JavaScript runs one task at a time: every action below is one task      *)
(* (a user event, a FileReader event, a network settlement, a timer)       *)
(* together with all the micro-tasks (promise continuations) it triggers.  *)
(***************************************************************************)
EXTENDS Integers, Sequences, FiniteSets, TLC

\* ---------------------------------------------------------------- bounds
\* accepted files (analysis attempts) in one session
MaxDrops == 2
\* the user's other operations in one session: rejected or empty drops,
\* openings and closings of the history panel, deletions, selections and
\* moves of a filter slider
MaxUserOps == 2

\* ------------------------------------------------------ program constants
\* [result, ...prev].slice(0, 10)
HistoryCap == 10
\* const maxSize = 4 * 1024 * 1024
maxSize == 4 * 1024 * 1024

Null == [kind |-> "null"]

DR_DESCRIPTIONS ==
  [l \in 0..4 |->
     CASE l = 0 -> "No visible signs of diabetic retinopathy. Regular screening should continue as recommended by your healthcare provider."
       [] l = 1 -> "Mild non-proliferative diabetic retinopathy (NPDR) with microaneurysms. Monitor closely and maintain good blood sugar control."
       [] l = 2 -> "Moderate NPDR with multiple microaneurysms, dot and blot hemorrhages, and hard exudates. More frequent monitoring required."
       [] l = 3 -> "Severe NPDR with extensive hemorrhages, venous beading, and intraretinal microvascular abnormalities (IRMA). Immediate medical attention needed."
       [] l = 4 -> "Proliferative diabetic retinopathy (PDR) with neovascularization and potential vitreous hemorrhage. Urgent treatment required."]

DEFAULT_IMAGE_FILTERS == [brightness |-> 100, contrast |-> 100, saturation |-> 100]

\* -------------------------------------------------------------- messages
\* A message is the sequence of its words; String.includes is modelled on
\* whole words (Includes below).
MsgBadType == <<"Please", "upload", "a", "valid", "JPEG", "or", "PNG", "image.">>
MsgTooBig == <<"Image", "size", "must", "be", "less", "than", "4MB.">>
MsgNoKey == <<"Gemini", "API", "key", "is", "not", "configured">>
MsgBadFormat == <<"Invalid", "image", "format">>
MsgUnsupported == <<"Unsupported", "image", "format.", "Please", "use", "JPEG", "or", "PNG.">>
MsgTimeout == <<"Analysis", "timed", "out.", "Please", "try", "again.">>
MsgNoResponse == <<"Failed", "to", "get", "a", "valid", "response", "from", "the", "AI", "model">>
MsgInvalidReply == <<"Invalid", "model", "response.", "Please", "try", "again.">>
MsgReadFailed == <<"Failed", "to", "read", "the", "image", "file.">>
MsgUnauth == <<"API", "key", "is", "invalid", "or", "expired.", "Please", "check", "your", "configuration.">>
MsgDenied == <<"Access", "denied.", "Please", "check", "your", "API", "key", "permissions.">>
MsgQuota == <<"API", "quota", "exceeded.", "Please", "try", "again", "later.">>
MsgSize == <<"Image", "size", "exceeds", "limits.", "Please", "use", "a", "smaller", "image", "(max", "4MB).">>
MsgNetwork == <<"Network", "error.", "Please", "check", "your", "internet", "connection.">>

\* err.message.includes(token): token occurs as a run of consecutive words
Includes(msg, token) ==
  \E k \in 0..(Len(msg) - Len(token)) :
     \A j \in 1..Len(token) : msg[k + j] = token[j]

\* the catch block of analyzeImage: the first matching category wins,
\* anything else is rethrown with its own message
MapError(msg) ==
  IF Includes(msg, <<"UNAUTHENTICATED">>) THEN MsgUnauth
  ELSE IF Includes(msg, <<"PERMISSION_DENIED">>) THEN MsgDenied
  ELSE IF Includes(msg, <<"RESOURCE_EXHAUSTED">>) THEN MsgQuota
  ELSE IF Includes(msg, <<"size">>) \/ Includes(msg, <<"too", "large">>) THEN MsgSize
  ELSE IF Includes(msg, <<"timeout">>) THEN MsgTimeout
  ELSE IF Includes(msg, <<"network">>) THEN MsgNetwork
  ELSE msg

\* messages the remote call is modelled to reject with
RemoteMessages ==
  { <<"[403]", "PERMISSION_DENIED", "size">>,
    <<"fetch", "failed:", "network">>,
    <<"[500]", "internal">> }

\* ------------------------------------------------------------------ files
\* name stands for the file's bytes; a file of size 0 has no bytes
Files ==
  { [name |-> "A", type |-> "image/jpeg", size |-> 1000],
    [name |-> "B", type |-> "image/png",  size |-> maxSize],
    [name |-> "C", type |-> "image/png",  size |-> maxSize + 1],
    [name |-> "D", type |-> "image/gif",  size |-> 1000],
    [name |-> "E", type |-> "image/jpeg", size |-> 0] }

\* FileReader.readAsDataURL: data:<type>;base64,<payload>
DataURL(file) ==
  [kind |-> "data", mime |-> file.type,
   payload |-> IF file.size = 0 THEN <<>> ELSE <<file.name>>]

\* MIME strings made only of the characters [A-Za-z-+/], at least one
MimeClass == {"image/jpeg", "image/png", "image/gif"}

\* imageData.match(/^data:([A-Za-z-+/]+);base64,(.+)$/)
MatchesDataUrl(d) == d.kind = "data" /\ d.mime \in MimeClass /\ Len(d.payload) > 0

\* ----------------------------------------------------------- reply parsing
Whitespace == {" ", "\n", "\t"}
DigitVal ==
  [c \in {"0","1","2","3","4","5","6","7","8","9","a","b","c"} |->
     CASE c = "0" -> 0 [] c = "1" -> 1 [] c = "2" -> 2 [] c = "3" -> 3
       [] c = "4" -> 4 [] c = "5" -> 5 [] c = "6" -> 6 [] c = "7" -> 7
       [] c = "8" -> 8 [] c = "9" -> 9 [] c = "a" -> 10 [] c = "b" -> 11
       [] c = "c" -> 12]

RECURSIVE TrimStart(_)
TrimStart(s) ==
  IF s # <<>> /\ Head(s) \in Whitespace THEN TrimStart(Tail(s)) ELSE s

RECURSIVE TrimEnd(_)
TrimEnd(s) ==
  IF s # <<>> /\ s[Len(s)] \in Whitespace THEN TrimEnd(SubSeq(s, 1, Len(s) - 1)) ELSE s

\* String.prototype.trim
Trim(s) == TrimEnd(TrimStart(s))

IsDigit(c, radix) == c \in DOMAIN DigitVal /\ DigitVal[c] < radix

\* value of the longest prefix of digits of the radix; acc carries the
\* value so far, seen whether any digit was read
RECURSIVE ParseDigits(_, _, _, _)
ParseDigits(s, radix, acc, seen) ==
  IF s # <<>> /\ IsDigit(Head(s), radix)
  THEN ParseDigits(Tail(s), radix, acc * radix + DigitVal[Head(s)], TRUE)
  ELSE [nan |-> ~seen, val |-> acc]

\* parseInt(text): skip leading white space, an optional sign, an optional
\* 0x prefix (radix 16), then the longest prefix of digits; NaN if none
ParseInt(text) ==
  LET s == TrimStart(text)
      neg == s # <<>> /\ Head(s) = "-"
      u == IF s # <<>> /\ Head(s) \in {"-", "+"} THEN Tail(s) ELSE s
      hex == Len(u) >= 2 /\ u[1] = "0" /\ u[2] \in {"x", "X"}
      r == IF hex THEN ParseDigits(Tail(Tail(u)), 16, 0, FALSE)
                  ELSE ParseDigits(u, 10, 0, FALSE)
  IN [nan |-> r.nan, val |-> IF neg THEN 0 - r.val ELSE r.val]

\* the upper bound of the range check left out
ValidLevelNoUpper(p) == ~(p.nan \/ p.val < 0)

\* if (isNaN(level) || level < 0 || level > 4) throw
ValidLevel(p) == ~(p.nan \/ p.val < 0 \/ p.val > 4)

\* reply texts the classifier is modelled to answer with
ReplyTexts ==
  { <<"0">>, <<"1">>, <<"2">>, <<"3">>, <<"4">>,
    <<"7">>, <<"a", "b", "c">>, <<" ", "2", "\n">>, <<"3", "a">> }

\* what model.generateContent resolves with: no usable response object, or
\* a response carrying a text
Replies ==
  { [response |-> FALSE, text |-> <<>>] } \cup
  { [response |-> TRUE, text |-> t] : t \in ReplyTexts }

\* ---------------------------------------------------------------- history
Min(a, b) == IF a < b THEN a ELSE b

\* the slice left out
HistoryAddNoSlice(result, prev) == <<result>> \o prev

\* the result appended instead of prepended
HistoryAddAppend(result, prev) ==
  SubSeq(prev \o <<result>>, 1, Min(HistoryCap, Len(prev) + 1))

\* [result, ...prev].slice(0, 10)
HistoryAdd(result, prev) ==
  SubSeq(<<result>> \o prev, 1, Min(HistoryCap, Len(prev) + 1))

RECURSIVE Filter(_, _)
Filter(s, id) ==
  IF s = <<>> THEN <<>>
  ELSE IF Head(s).id # id THEN <<Head(s)>> \o Filter(Tail(s), id)
  ELSE Filter(Tail(s), id)

\* the filter's test inverted
HistoryRemoveKeep(id, prev) == SelectSeq(prev, LAMBDA item : item.id = id)

\* prev.filter((item) => item.id !== id)
HistoryRemove(id, prev) == Filter(prev, id)

\* an off-by-one index into the table
DescribeShifted(level) == DR_DESCRIPTIONS[(level + 1) % 5]

\* DR_DESCRIPTIONS[level as keyof typeof DR_DESCRIPTIONS]: a key the table
\* lacks reads as undefined
Describe(level) ==
  IF level \in DOMAIN DR_DESCRIPTIONS THEN DR_DESCRIPTIONS[level] ELSE "undefined"

\* a result as processImage builds it
MakeResult(id, timestamp, imageData, level) ==
  [id |-> id, timestamp |-> timestamp, imageUrl |-> imageData,
   level |-> level, description |-> Describe(level)]

\* what an earlier session left in localStorage: results of earlier
\* analyses, newest first, ids 1..10
SeedFile(k) == IF k % 2 = 0 THEN [name |-> "A", type |-> "image/jpeg", size |-> 1000]
               ELSE [name |-> "B", type |-> "image/png", size |-> maxSize]
Seed == [k \in 1..HistoryCap |-> MakeResult(k, HistoryCap + 1 - k, DataURL(SeedFile(k)), k % 5)]

\* A session is one of two kinds, so that the state space stays finite and
\* small: an "inputs" session analyses one file and draws it, the
\* classifier's answer and the stored history from the full input sets; an
\* "overlap" session analyses up to MaxDrops files, possibly at the same
\* time, and draws from the small sets below (its n-th accepted file is A
\* and B in turn, and its files are always readable).
Sessions == {"inputs", "overlap"}
InitLens(s) == IF s = "inputs" THEN {0, HistoryCap - 1, HistoryCap} ELSE {1}
FilesOf(s, n) == IF s = "inputs" THEN Files
                 ELSE {f \in Files : f.name = (IF n % 2 = 0 THEN "A" ELSE "B")}
RepliesOf(s) == IF s = "inputs" THEN Replies
                ELSE {r \in Replies : r.response /\ r.text \in {<<"1">>, <<"7">>}}
RemoteMessagesOf(s) == IF s = "inputs" THEN RemoteMessages ELSE {}
DropLimit(s) == IF s = "inputs" THEN 1 ELSE MaxDrops
\* only an "inputs" session has rejected drops, deletions and filter changes
Extras(s) == s = "inputs"

VARIABLES
  image,        \* useState: displayed image URL or Null
  loading,      \* useState: boolean
  prediction,   \* useState: current AnalysisResult or Null
  error,        \* useState: [message |-> words] or Null
  showHistory,  \* useState: boolean
  history,      \* useLocalStorage('analysisHistory') value
  stored,       \* localStorage['analysisHistory']
  imageFilters, \* useState: ImageFilters
  reqs,         \* the onDrop invocations that got past validation
  liveUrls,     \* object URLs created and not yet revoked
  nextUrl,      \* next object URL
  nextId,       \* next crypto.randomUUID()
  clock,        \* Date.now()
  apiKey,       \* import.meta.env.VITE_GEMINI_API_KEY is set
  stableSetter, \* the setHistory returned by useLocalStorage keeps its identity
  session,      \* which inputs the session draws from (see Sessions)
  counts,       \* how many user operations of each kind happened
  lastOp        \* the task that ran last

vars == <<image, loading, prediction, error, showHistory, history, stored,
          imageFilters, reqs, liveUrls, nextUrl, nextId, clock, apiKey,
          stableSetter, session, counts, lastOp>>

ui == <<image, loading, prediction, error, history>>

\* what a task was called with: a file's name, a history entry's id, a
\* filter's name, the classifier's reply or the message of its rejection
NoArg == [file |-> "", id |-> 0, key |-> "", response |-> FALSE, text |-> <<>>]
FileArg(name) == [NoArg EXCEPT !.file = name]
IdArg(id) == [NoArg EXCEPT !.id = id]
KeyArg(key) == [NoArg EXCEPT !.key = key]
ReplyArg(reply) == [NoArg EXCEPT !.response = reply.response, !.text = reply.text]
MsgArg(msg) == [NoArg EXCEPT !.text = msg]

Op(name, req, arg) == [op |-> name, req |-> req, arg |-> arg]

Init ==
  /\ image = Null
  /\ loading = FALSE
  /\ prediction = Null
  /\ error = Null
  /\ showHistory = FALSE
  /\ session \in Sessions
  /\ \E n \in InitLens(session) : history = SubSeq(Seed, 1, n)
  /\ stored = history
  /\ imageFilters = DEFAULT_IMAGE_FILTERS
  /\ reqs = <<>>
  /\ liveUrls = {}
  /\ nextUrl = 1
  /\ nextId = HistoryCap + 1
  /\ clock = HistoryCap + 1
  /\ apiKey \in (IF session = "inputs" THEN BOOLEAN ELSE {TRUE})
  /\ stableSetter \in BOOLEAN
  /\ counts = [drops |-> 0, ops |-> 0]
  /\ lastOp = Op("init", 0, NoArg)

\* -------------------------------------------------------------- operations
Bump(field) == counts' = [counts EXCEPT ![field] = @ + 1]

\* useLocalStorage's setter called with an updater: the value becomes
\* updater(current value) and is written to localStorage
SetHistory(new) == history' = new /\ stored' = new

\* the `image` the running onDrop closure sees: useCallback(..., [setHistory])
\* keeps the first render's closure (image = null) when setHistory keeps its
\* identity, else the closure of the render before the drop
ClosureImage == IF stableSetter THEN Null ELSE image

\* catch + finally of onDrop, for an invocation whose closure saw `seen`
Catch(msg, seen) ==
  /\ error' = [message |-> msg]
  /\ IF seen # Null
     THEN image' = Null /\ liveUrls' = liveUrls \ {seen}
     ELSE UNCHANGED <<image, liveUrls>>
  /\ loading' = FALSE
  /\ UNCHANGED <<prediction, history, stored>>

\* onDrop called without a file: if (!file) return
DropNothing ==
  /\ Bump("ops")
  /\ lastOp' = Op("dropNothing", 0, NoArg)
  /\ UNCHANGED <<image, loading, prediction, error, showHistory, history, stored,
                 imageFilters, reqs, liveUrls, nextUrl, nextId, clock, apiKey,
                 stableSetter, session>>

\* the size check with >= for >
AcceptedBelow(file) == file.type \in {"image/jpeg", "image/png"} /\ ~(file.size >= maxSize)

\* file.type and file.size pass onDrop's checks
Accepted(file) == file.type \in {"image/jpeg", "image/png"} /\ ~(file.size > maxSize)

\* onDrop up to its first await, for a file that fails validation
DropRejected(file) ==
  /\ ~Accepted(file)
  /\ Bump("ops")
  /\ Catch(IF file.type \notin {"image/jpeg", "image/png"} THEN MsgBadType ELSE MsgTooBig,
           ClosureImage)
  /\ lastOp' = Op("dropRejected", 0, FileArg(file.name))
  /\ UNCHANGED <<showHistory, imageFilters, reqs, nextUrl, nextId, clock, apiKey,
                 stableSetter, session>>

\* the prior error left in place
StartLoadingKeepsError == loading' = TRUE /\ error' = error /\ prediction' = Null

\* setLoading(true); setError(null); setPrediction(null)
StartLoading == loading' = TRUE /\ error' = Null /\ prediction' = Null

\* onDrop up to its first await, for a file that passes validation: the
\* state is set to loading, the preview object URL is created and shown and
\* processImage starts the FileReader
DropAccepted(file) ==
  /\ Accepted(file)
  /\ Bump("drops")
  /\ StartLoading
  /\ LET objectUrl == [kind |-> "blob", n |-> nextUrl]
     IN /\ image' = objectUrl
        /\ liveUrls' = liveUrls \cup {objectUrl}
        /\ reqs' = Append(reqs, [pc |-> "reading", file |-> file, objectUrl |-> objectUrl,
                                 seen |-> ClosureImage, net |-> "none", timer |-> "none",
                                 calls |-> 0, reads |-> 1])
  /\ nextUrl' = nextUrl + 1
  /\ lastOp' = Op("dropAccepted", Len(reqs) + 1, FileArg(file.name))
  /\ UNCHANGED <<showHistory, history, stored, imageFilters, nextId, clock, apiKey,
                 stableSetter, session>>


\* the request fails with msg: processImage rejects, onDrop's catch runs
Fail(i, msg, r) ==
  /\ reqs' = [reqs EXCEPT ![i] = r]
  /\ Catch(msg, reqs[i].seen)
  /\ UNCHANGED <<nextId, clock>>

\* the request succeeds with level: processImage builds the result, onDrop
\* shows it and prepends it to the history
Succeed(i, level, r) ==
  LET result == MakeResult(nextId, clock, DataURL(reqs[i].file), level)
  IN /\ reqs' = [reqs EXCEPT ![i] = r]
     /\ prediction' = result
     /\ SetHistory(HistoryAdd(result, history))
     /\ loading' = FALSE
     /\ nextId' = nextId + 1
     /\ clock' = clock + 1
     /\ UNCHANGED <<image, error, liveUrls>>

\* a reader that fires again after the request ended
ReaderPendingOrDone(r) == r.pc \in {"reading", "done"}

\* reader.readAsDataURL(file) was called and neither onload nor onerror has
\* fired: a FileReader fires one of them, once
ReaderPending(r) == r.pc = "reading"

\* reader.onload: analyzeImage runs up to its await of the race; it throws
\* before the request is made, or makes the request and starts the timer
ReaderLoad(i) ==
  /\ ReaderPending(reqs[i])
  /\ LET imageData == DataURL(reqs[i].file)
         done == [reqs[i] EXCEPT !.pc = "done"]
     IN IF ~apiKey THEN Fail(i, MsgNoKey, done)
        ELSE IF ~MatchesDataUrl(imageData) THEN Fail(i, MapError(MsgBadFormat), done)
        ELSE IF imageData.mime \notin {"image/jpeg", "image/png"}
             THEN Fail(i, MapError(MsgUnsupported), done)
        ELSE /\ reqs' = [reqs EXCEPT ![i] = [@ EXCEPT !.pc = "racing", !.net = "pending",
                                                       !.timer = "pending", !.calls = @ + 1]]
             /\ UNCHANGED <<image, loading, prediction, error, history, stored, liveUrls,
                            nextId, clock>>
  /\ lastOp' = Op("readerLoad", i, NoArg)
  /\ UNCHANGED <<showHistory, imageFilters, nextUrl, apiKey, stableSetter, session, counts>>

\* reader.onerror
ReaderError(i) ==
  /\ ReaderPending(reqs[i])
  /\ Fail(i, MsgReadFailed, [reqs[i] EXCEPT !.pc = "done"])
  /\ lastOp' = Op("readerError", i, NoArg)
  /\ UNCHANGED <<showHistory, imageFilters, nextUrl, apiKey, stableSetter, session, counts>>

\* a race that never counts as settled
RaceSettledNever(r) == FALSE

\* Promise.race([resultPromise, timeoutPromise]) has settled for request r:
\* a later settlement of either promise resumes nothing
RaceSettled(r) == r.pc # "racing"

\* a settlement of the loser of Promise.race, or of a promise nobody awaits
\* any more, runs no code of the application
Ignored == UNCHANGED <<image, loading, prediction, error, history, stored, liveUrls,
                       nextId, clock>>

\* model.generateContent resolves with reply
NetResolve(i, reply) ==
  /\ reqs[i].net = "pending"
  /\ LET r == [reqs[i] EXCEPT !.net = "settled", !.pc = "done"]
         level == ParseInt(Trim(reply.text))
     IN IF RaceSettled(reqs[i]) THEN reqs' = [reqs EXCEPT ![i] = r] /\ Ignored
        ELSE IF ~reply.response THEN Fail(i, MapError(MsgNoResponse), r)
        ELSE IF ~ValidLevel(level) THEN Fail(i, MapError(MsgInvalidReply), r)
        ELSE Succeed(i, level.val, r)
  /\ lastOp' = Op(IF ~RaceSettled(reqs[i]) THEN "netResolve" ELSE "lateSettle", i,
                  IF ~RaceSettled(reqs[i]) THEN ReplyArg(reply) ELSE NoArg)
  /\ UNCHANGED <<showHistory, imageFilters, nextUrl, apiKey, stableSetter, session, counts>>

\* model.generateContent rejects with an Error carrying msg
NetReject(i, msg) ==
  /\ reqs[i].net = "pending"
  /\ LET r == [reqs[i] EXCEPT !.net = "settled", !.pc = "done"]
     IN IF RaceSettled(reqs[i]) THEN reqs' = [reqs EXCEPT ![i] = r] /\ Ignored
        ELSE Fail(i, MapError(msg), r)
  /\ lastOp' = Op(IF ~RaceSettled(reqs[i]) THEN "netReject" ELSE "lateSettle", i,
                  IF ~RaceSettled(reqs[i]) THEN MsgArg(msg) ELSE NoArg)
  /\ UNCHANGED <<showHistory, imageFilters, nextUrl, apiKey, stableSetter, session, counts>>

\* a timer that never fires
TimerNever(i) == FALSE /\ UNCHANGED vars

\* the setTimeout callback rejects timeoutPromise
TimerFire(i) ==
  /\ reqs[i].timer = "pending"
  /\ LET r == [reqs[i] EXCEPT !.timer = "fired", !.pc = "done"]
     IN IF RaceSettled(reqs[i]) THEN reqs' = [reqs EXCEPT ![i] = r] /\ Ignored
        ELSE Fail(i, MapError(MsgTimeout), r)
  /\ lastOp' = Op(IF ~RaceSettled(reqs[i]) THEN "timerFire" ELSE "lateTimer", i, NoArg)
  /\ UNCHANGED <<showHistory, imageFilters, nextUrl, apiKey, stableSetter, session, counts>>

\* the "Remove image" button, rendered while an image is displayed
resetAnalysis ==
  /\ image # Null
  /\ liveUrls' = liveUrls \ {image}
  /\ image' = Null
  /\ prediction' = Null
  /\ error' = Null
  /\ imageFilters' = DEFAULT_IMAGE_FILTERS
  /\ lastOp' = Op("resetAnalysis", 0, NoArg)
  /\ UNCHANGED <<loading, showHistory, history, stored, reqs, nextUrl, nextId, clock,
                 apiKey, stableSetter, session, counts>>

\* slider positions the user is modelled to choose (the sliders run 50..150)
FilterValues == {50, 150}

\* a slider of ImageFiltersComponent, rendered while an image is displayed:
\* handleChange(key, value) calls onChange({ ...filters, [key]: value })
ChangeFilter(key, value) ==
  /\ image # Null
  /\ Bump("ops")
  /\ imageFilters' = [imageFilters EXCEPT ![key] = value]
  /\ lastOp' = Op("changeFilter", 0, KeyArg(key))
  /\ UNCHANGED <<image, loading, prediction, error, showHistory, history, stored, reqs,
                 liveUrls, nextUrl, nextId, clock, apiKey, stableSetter, session>>

\* ids deleteFromHistory is called with: stored ones, new ones, an absent one
DeleteIds == {0, 1, 5, HistoryCap + 1}

\* the trash button of a history entry (HistoryPanel onDelete)
deleteFromHistory(id) ==
  /\ showHistory
  /\ Bump("ops")
  /\ SetHistory(HistoryRemove(id, history))
  /\ lastOp' = Op("deleteFromHistory", 0, IdArg(id))
  /\ UNCHANGED <<image, loading, prediction, error, showHistory, imageFilters, reqs,
                 liveUrls, nextUrl, nextId, clock, apiKey, stableSetter, session>>

\* a click on a history entry's thumbnail (HistoryPanel onSelect)
selectFromHistory(result) ==
  /\ showHistory
  /\ Bump("ops")
  /\ image' = result.imageUrl
  /\ prediction' = result
  /\ error' = Null
  /\ showHistory' = FALSE
  /\ lastOp' = Op("selectFromHistory", 0, IdArg(result.id))
  /\ UNCHANGED <<loading, history, stored, imageFilters, reqs, liveUrls, nextUrl,
                 nextId, clock, apiKey, stableSetter, session>>

\* the entries a click is modelled on: the newest and the oldest
SelectPositions == IF history = <<>> THEN {} ELSE {1, Len(history)}

\* the history button: setShowHistory(!showHistory)
ToggleHistory ==
  /\ Bump("ops")
  /\ showHistory' = ~showHistory
  /\ lastOp' = Op("toggleHistory", 0, NoArg)
  /\ UNCHANGED <<image, loading, prediction, error, history, stored, imageFilters, reqs,
                 liveUrls, nextUrl, nextId, clock, apiKey, stableSetter, session>>

\* the tasks of the requests in flight
Requests == \E i \in DOMAIN reqs :
  \/ ReaderLoad(i)
  \/ session = "inputs" /\ ReaderError(i)
  \/ \E reply \in RepliesOf(session) : NetResolve(i, reply)
  \/ \E msg \in RemoteMessagesOf(session) : NetReject(i, msg)
  \/ TimerFire(i)

\* the user's drops, within the session's bounds
Drops ==
  \/ counts.ops < MaxUserOps /\ Extras(session) /\ DropNothing
  \/ counts.ops < MaxUserOps /\ Extras(session)
       /\ \E file \in FilesOf(session, counts.drops) : DropRejected(file)
  \/ counts.drops < DropLimit(session)
       /\ \E file \in FilesOf(session, counts.drops) : DropAccepted(file)

\* the user's work on the history panel, within the session's bounds
HistoryOps ==
  \/ counts.ops < MaxUserOps /\ Extras(session)
       /\ \E id \in DeleteIds : deleteFromHistory(id)
  \/ counts.ops < MaxUserOps /\ \E k \in SelectPositions : selectFromHistory(history[k])
  \/ counts.ops < MaxUserOps /\ ToggleHistory

\* the user's work on the displayed image, within the session's bounds
ImageOps ==
  \/ resetAnalysis
  \/ counts.ops < MaxUserOps /\ Extras(session)
       /\ \E key \in DOMAIN DEFAULT_IMAGE_FILTERS : \E value \in FilterValues :
            ChangeFilter(key, value)

Next == Drops \/ Requests \/ ImageOps \/ HistoryOps

Spec == Init /\ [][Next]_vars

\* the FileReader of request i fires onload or onerror
ReaderTask(i) ==
  i \in DOMAIN reqs /\ (ReaderLoad(i) \/ (session = "inputs" /\ ReaderError(i)))

\* the setTimeout callback of request i runs
TimerTask(i) == i \in DOMAIN reqs /\ TimerFire(i)

\* The browser runs a FileReader's callback and a timer's callback once they
\* are due; nothing makes model.generateContent settle.
SpecFair ==
  /\ Spec
  /\ \A i \in 1..MaxDrops : WF_vars(ReaderTask(i)) /\ WF_vars(TimerTask(i))

\* ------------------------------------------------------------ properties
Ids(h) == {h[k].id : k \in DOMAIN h}
Without(h, k) == SubSeq(h, 1, k - 1) \o SubSeq(h, k + 1, Len(h))
InFlight(r) == r.pc \in {"reading", "racing"}
DigitText(L) == << <<"0", "1", "2", "3", "4">>[L + 1] >>
DroppedFile == CHOOSE f \in Files : f.name = lastOp'.arg.file

\* C1: in every reachable state the history holds at most 10 entries.
C1_HistoryAtMostTen == Len(history) <= 10

\* an analysis has just succeeded on a full history, which is still full
C1_Witness ==
  /\ lastOp.op = "netResolve"
  /\ prediction # Null
  /\ Len(history) = 10
  /\ history[1] = prediction
  /\ nextId = HistoryCap + 2

\* C2: a step that creates a result r (a successful analysis) turns the
\* history h into r followed by the first min(|h|, 9) entries of h.
C2_AddPrependsAndEvictsOldest ==
  [][nextId' # nextId =>
       /\ prediction' # Null
       /\ prediction'.id \notin Ids(history)
       /\ history' = <<prediction'>> \o SubSeq(history, 1, Min(Len(history), 9))]_vars

\* the stored entries 1..10 have become the new result followed by 1..9
C2_Witness ==
  /\ Len(history) = 10
  /\ history[1].id = HistoryCap + 1
  /\ \A k \in 2..10 : history[k] = Seed[k - 1]

\* C3: deleteFromHistory(id) leaves the history unchanged when no entry has
\* that id, and otherwise removes the one entry with that id and keeps the
\* others in order.
C3_DeleteRemovesExactlyThatEntry ==
  [][lastOp'.op = "deleteFromHistory" =>
       LET id == lastOp'.arg.id
       IN IF id \notin Ids(history) THEN history' = history
          ELSE \E k \in DOMAIN history :
                 /\ history[k].id = id
                 /\ history' = Without(history, k)
                 /\ id \notin Ids(history')]_vars

\* the entry with id 5 has just been deleted from the middle of the history
C3_Witness ==
  /\ lastOp.op = "deleteFromHistory"
  /\ lastOp.arg.id = 5
  /\ Len(history) >= HistoryCap - 2
  /\ 5 \notin Ids(history)
  /\ {4, 6} \subseteq Ids(history)

\* C4: the completion of a request that a newer request has superseded
\* changes neither the result, the error, the loading flag, the image nor
\* the history.
C4_StaleCompletionIgnored ==
  [][\A i \in DOMAIN reqs :
       (InFlight(reqs[i]) /\ ~InFlight(reqs'[i]) /\ i < Len(reqs))
         => UNCHANGED <<prediction, error, loading, image, history>>]_vars

\* C5: when the timer fires before the classifier call has settled the
\* analysis fails with the timeout message and loading ends; a response
\* that arrives after the timer fired changes no state of the application.
C5_TimeoutThenLateResponseIgnored ==
  [][\A i \in DOMAIN reqs :
       /\ (reqs[i].timer = "pending" /\ reqs'[i].timer = "fired" /\ reqs[i].net = "pending")
            => /\ error' = [message |-> MsgTimeout]
               /\ loading' = FALSE
               /\ prediction' = prediction
               /\ history' = history
       /\ (reqs[i].timer = "fired" /\ reqs[i].net = "pending" /\ reqs'[i].net = "settled")
            => UNCHANGED <<image, loading, prediction, error, history, stored, liveUrls,
                           nextId>>]_vars

\* a request timed out and its response arrived afterwards
C5_Witness ==
  /\ lastOp.op = "lateSettle"
  /\ reqs[lastOp.req].timer = "fired"
  /\ reqs[lastOp.req].net = "settled"
  /\ error = [message |-> MsgTimeout]
  /\ prediction = Null

\* C6: selectFromHistory(r) in any state issues no classifier request and
\* leaves current result = r, image = r's image, no error, not loading and
\* the history unchanged.
C6_SelectShowsStoredResult ==
  [][lastOp'.op = "selectFromHistory" =>
       \E k \in DOMAIN history :
         /\ history[k].id = lastOp'.arg.id
         /\ prediction' = history[k]
         /\ image' = history[k].imageUrl
         /\ error' = Null
         /\ loading' = FALSE
         /\ history' = history
         /\ reqs' = reqs]_vars

\* C7: a reply whose trimmed text does not parse as an integer in 0..4
\* fails the analysis with the invalid-response message, with no current
\* result, and adds nothing to the history.
C7_InvalidReplyFails ==
  [][\A i \in DOMAIN reqs :
       (/\ reqs[i].pc = "racing" /\ reqs'[i].net = "settled"
        /\ lastOp'.op = "netResolve" /\ lastOp'.arg.response
        /\ ~ValidLevel(ParseInt(Trim(lastOp'.arg.text))))
         => /\ error' = [message |-> MsgInvalidReply]
            /\ loading' = FALSE
            /\ prediction' = Null
            /\ history' = history]_vars

\* C8: the current result and every history entry have a level in 0..4 and
\* the table's description of that level.
C8_LevelAndDescription ==
  \A r \in (IF prediction = Null THEN {} ELSE {prediction}) \cup
           {history[k] : k \in DOMAIN history} :
     r.level \in 0..4 /\ r.description = DR_DESCRIPTIONS[r.level]

\* a result of this session with level 4 is shown and stored
C8_Witness ==
  /\ prediction # Null
  /\ prediction.id > HistoryCap
  /\ prediction.level = 4
  /\ history # <<>> /\ history[1] = prediction

\* C9: for L in 0..4, a reply of the digit L that arrives while the race is
\* open makes the analysis succeed: the current result has level L, the
\* table's description of L and the data URL read from the file.
C9_DigitReplySucceeds ==
  [][\A i \in DOMAIN reqs : \A L \in 0..4 :
       (/\ reqs[i].pc = "racing" /\ reqs'[i].net = "settled"
        /\ lastOp'.op = "netResolve" /\ lastOp'.arg.response
        /\ lastOp'.arg.text = DigitText(L))
         => /\ prediction' # Null
            /\ prediction'.level = L
            /\ prediction'.description = DR_DESCRIPTIONS[L]
            /\ prediction'.imageUrl = DataURL(reqs[i].file)
            /\ loading' = FALSE
            /\ history'[1] = prediction']_vars

\* the reply "2" has just produced a result of level 2
C9_Witness ==
  /\ lastOp.op = "netResolve"
  /\ lastOp.arg.text = <<"2">>
  /\ prediction # Null
  /\ prediction.level = 2
  /\ prediction.imageUrl = DataURL(reqs[lastOp.req].file)

\* C10: a dropped file starts an analysis iff its type is image/jpeg or
\* image/png and its size is at most 4 MiB; a rejected file sets a
\* validation message, ends loading, is not read, causes no request and
\* leaves the history alone.
C10_ValidationGate ==
  [][lastOp'.op \in {"dropAccepted", "dropRejected"} =>
       LET f == DroppedFile
           ok == f.type \in {"image/jpeg", "image/png"} /\ f.size <= 4 * 1024 * 1024
       IN /\ (Len(reqs') = Len(reqs) + 1) <=> ok
          /\ ok => reqs'[Len(reqs')].file = f /\ loading'
          /\ ~ok => /\ error' # Null
                    /\ error'.message \in {MsgBadType, MsgTooBig}
                    /\ loading' = FALSE
                    /\ reqs' = reqs
                    /\ history' = history]_vars

\* the GIF has just been rejected, and nothing was read or requested
C10_Witness ==
  /\ lastOp.op = "dropRejected"
  /\ lastOp.arg.file = "D"
  /\ error = [message |-> MsgBadType]
  /\ reqs = <<>>

\* C11: a step in which an accepted file's analysis fails leaves an error
\* with a non-empty message, not loading, that attempt's preview object
\* URL released and no displayed image.
C11_FailureReleasesPreview ==
  [][\A i \in DOMAIN reqs :
       (InFlight(reqs[i]) /\ ~InFlight(reqs'[i]) /\ nextId' = nextId)
         => /\ error' # Null
            /\ error'.message # <<>>
            /\ loading' = FALSE
            /\ reqs[i].objectUrl \notin liveUrls'
            /\ image' = Null]_vars

\* the lifecycle is Idle: nothing displayed, no result, no error, not loading
Idle == image = Null /\ prediction = Null /\ error = Null /\ ~loading

RequestOps == {"readerLoad", "readerError", "netResolve", "netReject", "timerFire",
               "lateSettle", "lateTimer"}

\* C12: resetAnalysis leaves the lifecycle Idle with the default filters,
\* the displayed object URL released and the history unchanged, and a task
\* of a request in flight that runs next does not leave Idle.
C12_ResetReturnsToIdle ==
  [][/\ lastOp'.op = "resetAnalysis"
          => /\ Idle'
             /\ imageFilters' = DEFAULT_IMAGE_FILTERS
             /\ image \notin liveUrls'
             /\ history' = history
     /\ (lastOp.op = "resetAnalysis" /\ lastOp'.op \in RequestOps) => Idle']_vars

\* C13: in every reachable state the only object URL that was created and
\* not yet released, if there is one, is the displayed image.
C13_NoObjectUrlLeak == liveUrls \subseteq {image}

\* C14: a step in which a validated file arrives leaves loading true, no
\* error, no current result, a fresh preview object URL of the file as
\* the displayed image, and the history as it was.
C14_AcceptedDropEntersLoading ==
  [][lastOp'.op = "dropAccepted" =>
       /\ loading' = TRUE
       /\ error' = Null
       /\ prediction' = Null
       /\ image' = reqs'[Len(reqs')].objectUrl
       /\ image'.kind = "blob"
       /\ image' \notin liveUrls
       /\ reqs'[Len(reqs')].file = DroppedFile
       /\ history' = history
       /\ stored' = stored]_vars

\* a second file has just arrived while the first one's result and preview
\* were shown (Success), and the state is Loading with the new preview
C14_Witness ==
  /\ lastOp.op = "dropAccepted"
  /\ Len(reqs) = 2
  /\ reqs[1].pc = "done"
  /\ reqs[2].seen = reqs[1].objectUrl
  /\ history[1].id = HistoryCap + 1
  /\ loading /\ error = Null /\ prediction = Null
  /\ image = reqs[2].objectUrl

\* C15: no request makes more than one classifier call; a call is made
\* only by the reader.onload of a request that has made none and has not
\* ended, and a request starts with no call made, on an accepted drop.
C15_NoAutomaticRetry ==
  [][\A i \in DOMAIN reqs' :
       /\ reqs'[i].calls <= 1
       /\ i \in DOMAIN reqs
            => /\ reqs'[i].file = reqs[i].file
               /\ reqs'[i].calls # reqs[i].calls
                    => /\ InFlight(reqs[i]) /\ reqs[i].calls = 0
                       /\ lastOp'.op = "readerLoad" /\ lastOp'.req = i
       /\ i \notin DOMAIN reqs
            => /\ lastOp'.op = "dropAccepted"
               /\ i = Len(reqs) + 1
               /\ reqs'[i].calls = 0]_vars

\* the one analysis of the session made its call and timed out, the call
\* settled afterwards, the user went on, and still one call was made
C15_Witness ==
  /\ Len(reqs) = 1
  /\ reqs[1].pc = "done" /\ reqs[1].timer = "fired" /\ reqs[1].net = "settled"
  /\ error = [message |-> MsgTimeout]
  /\ lastOp.op = "toggleHistory"
  /\ reqs[1].calls = 1

\* C16: in every reachable state the error and the current result are not
\* both present, and while loading is true neither of them is present.
C16_LifecycleStatesExclusive ==
  /\ ~(error # Null /\ prediction # Null)
  /\ loading => (error = Null /\ prediction = Null)

\* the images of a result: its stored imageUrl, and the preview object URL
\* of the file it was produced from in this session
ImagesOf(result) ==
  {result.imageUrl} \cup
  {reqs[i].objectUrl : i \in {j \in DOMAIN reqs : /\ reqs[j].pc = "done"
                                                  /\ DataURL(reqs[j].file) = result.imageUrl}}

\* C17: whenever a current result is present, the displayed image is the
\* image of that result: its stored imageUrl or the preview of the file
\* that produced it.
C17_ResultShownWithItsImage ==
  prediction # Null => image \in ImagesOf(prediction)

\* C18: in every reachable state in which the most recently started
\* analysis request is in flight, loading is true.
C18_LoadingWhileLatestInFlight ==
  (reqs # <<>> /\ InFlight(reqs[Len(reqs)])) => loading

\* C19: every request in flight eventually ends, and loading eventually
\* turns false with an error or a result present, whether or not the
\* classifier call settles; a request leaves the file read once and ends
\* once: after it ended, its remaining tasks change nothing.
C19_AnalysisTerminatesOnce ==
  /\ \A i \in 1..MaxDrops :
       (i \in DOMAIN reqs /\ InFlight(reqs[i])) ~> (i \in DOMAIN reqs /\ ~InFlight(reqs[i]))
  /\ loading ~> (~loading /\ (error # Null \/ prediction # Null))
  /\ [][\A i \in DOMAIN reqs :
          /\ reqs'[i].reads = 1
          /\ reqs[i].pc # "reading" => reqs'[i].pc # "reading"
          /\ reqs[i].pc = "done" =>
               /\ reqs'[i].pc = "done"
               /\ lastOp'.req = i => UNCHANGED <<image, loading, prediction, error, history,
                                                 stored, nextId>>]_vars

\* the analysis ended by the timeout while the classifier call is still
\* unsettled
C19_Witness ==
  /\ Len(reqs) = 1
  /\ reqs[1].pc = "done" /\ reqs[1].timer = "fired" /\ reqs[1].net = "pending"
  /\ lastOp.op = "timerFire"
  /\ ~loading
  /\ error = [message |-> MsgTimeout]
====
